---- MODULE Spec2Model ----
(***************************************************************************)
(* A model of jdump.py: a sentinel-separated stream of JSON documents      *)
(* written by DumpWriter, read by DumpReader through the _reader framer,   *)
(* and opened through DumpOpener, which stages 'w'/'x' output in           *)
(* '<path>.partial' and installs it with os.remove + os.rename on exit.    *)
(*                                                                         *)
(* Text is a sequence of one-character strings.  A document is a record    *)
(* tagged by t: "num" (n), "str" (s), "nan", "arr" (items), "obj" (kvs, a  *)
(* sequence of <<key, value>> in insertion order, as a Python dict).       *)
(* The json library is modelled on this subset: json.dumps by Dumps,       *)
(* json.loads by Loads (a recursive-descent parser of the text).           *)
(***************************************************************************)
EXTENDS Integers, Sequences, FiniteSets, TLC

\* ------------------------------------------------------------ bounds

\* writes one DumpWriter session makes in the stream specification
MaxDocs == 2
\* writemany calls among them
MaxMany == 1
\* writes the body of one DumpOpener transaction makes
MaxWrites == 2

\* ------------------------------------------------------------ text

WHITESPACE == {" ", "\t", "\n", "\r"}

RECURSIVE Concat(_)
Concat(ss) == IF ss = <<>> THEN <<>> ELSE Head(ss) \o Concat(Tail(ss))

Spaces(n) == [i \in 1..n |-> " "]

EndsWith(s, suf) ==
    /\ Len(suf) <= Len(s)
    /\ SubSeq(s, Len(s) - Len(suf) + 1, Len(s)) = suf

\* x in y for Python strings: x is a contiguous substring of y
IsSubstring(x, y) ==
    \E i \in 0..(Len(y) - Len(x)) : SubSeq(y, i + 1, i + Len(x)) = x

\* str.rstrip(chars)
RECURSIVE RStrip(_, _)
RStrip(s, chars) ==
    IF s # <<>> /\ s[Len(s)] \in chars
    THEN RStrip(SubSeq(s, 1, Len(s) - 1), chars)
    ELSE s

\* a strip() that finds every text empty
StripIsEmpty_any(s) == TRUE

\* str.strip() is empty iff every character is whitespace
StripIsEmpty(s) == \A i \in 1..Len(s) : s[i] \in WHITESPACE

\* the lines a text file object iterates over: each keeps its "\n"
RECURSIVE SplitLines(_, _)
SplitLines(s, cur) ==
    IF s = <<>> THEN (IF cur = <<>> THEN <<>> ELSE <<cur>>)
    ELSE IF Head(s) = "\n" THEN <<Append(cur, "\n")>> \o SplitLines(Tail(s), <<>>)
    ELSE SplitLines(Tail(s), Append(cur, Head(s)))

Lines(s) == SplitLines(s, <<>>)

\* the sequences over S of length at most n
RECURSIVE SeqsUpTo(_, _)
SeqsUpTo(S, n) ==
    IF n = 0 THEN {<<>>}
    ELSE LET shorter == SeqsUpTo(S, n - 1) IN
         shorter \cup {Append(q, x) : q \in shorter, x \in S}

\* ------------------------------------------------------------ documents

Num(n) == [t |-> "num", n |-> n]
Str(s) == [t |-> "str", s |-> s]
NaN == [t |-> "nan"]
Arr(items) == [t |-> "arr", items |-> items]
Obj(kvs) == [t |-> "obj", kvs |-> kvs]

\* allow_nan=False: json.dumps raises ValueError on a non-finite float
RECURSIVE HasNaN(_)
HasNaN(d) ==
    CASE d.t = "nan" -> TRUE
      [] d.t = "arr" -> \E i \in 1..Len(d.items) : HasNaN(d.items[i])
      [] d.t = "obj" -> \E i \in 1..Len(d.kvs) : HasNaN(d.kvs[i][2])
      [] OTHER -> FALSE

\* Python's == on decoded documents: a dict compares by its key/value
\* mapping, whatever the insertion order
RECURSIVE PyEq(_, _)
PyEq(a, b) ==
    /\ a.t = b.t
    /\ CASE a.t = "num" -> a.n = b.n
         [] a.t = "str" -> a.s = b.s
         [] a.t = "nan" -> FALSE
         [] a.t = "arr" -> /\ Len(a.items) = Len(b.items)
                           /\ \A i \in 1..Len(a.items) : PyEq(a.items[i], b.items[i])
         [] a.t = "obj" -> /\ Len(a.kvs) = Len(b.kvs)
                           /\ \A i \in 1..Len(a.kvs) :
                                \E j \in 1..Len(b.kvs) :
                                    /\ a.kvs[i][1] = b.kvs[j][1]
                                    /\ PyEq(a.kvs[i][2], b.kvs[j][2])

\* ------------------------------------------------------------ json.dumps

CharOrd(c) ==
    CASE c = "\"" -> 34 [] c = "-" -> 45 [] c = "a" -> 97 [] c = "b" -> 98
      [] c = "n" -> 110 [] c = "\n" -> 10 [] c = "\\" -> 92 [] OTHER -> 120

RECURSIVE KeyLess(_, _)
KeyLess(k1, k2) ==
    IF k1 = <<>> THEN k2 # <<>>
    ELSE IF k2 = <<>> THEN FALSE
    ELSE IF Head(k1) = Head(k2) THEN KeyLess(Tail(k1), Tail(k2))
    ELSE CharOrd(Head(k1)) < CharOrd(Head(k2))

RECURSIVE InsertKv(_, _)
InsertKv(sorted, kv) ==
    IF sorted = <<>> THEN <<kv>>
    ELSE IF KeyLess(kv[1], Head(sorted)[1]) THEN <<kv>> \o sorted
    ELSE <<Head(sorted)>> \o InsertKv(Tail(sorted), kv)

\* sort_keys=True: the items of a dict sorted by key
RECURSIVE SortKvs(_)
SortKvs(kvs) ==
    IF kvs = <<>> THEN <<>>
    ELSE InsertKv(SortKvs(SubSeq(kvs, 1, Len(kvs) - 1)), kvs[Len(kvs)])

DigitChar == <<"0", "1", "2", "3", "4", "5", "6", "7", "8", "9">>

RECURSIVE Digits(_)
Digits(n) == IF n < 10 THEN <<DigitChar[n + 1]>>
             ELSE Digits(n \div 10) \o <<DigitChar[(n % 10) + 1]>>

DumpsNum(n) == IF n < 0 THEN <<"-">> \o Digits(0 - n) ELSE Digits(n)

\* json.encoder ESCAPE with ensure_ascii=False: quote, backslash and the
\* control characters are escaped, everything else is kept literally
EscapeChar(c) ==
    CASE c = "\"" -> <<"\\", "\"">>
      [] c = "\\" -> <<"\\", "\\">>
      [] c = "\n" -> <<"\\", "n">>
      [] c = "\r" -> <<"\\", "r">>
      [] c = "\t" -> <<"\\", "t">>
      [] OTHER -> <<c>>

DumpsStr(s) == <<"\"">> \o Concat([i \in 1..Len(s) |-> EscapeChar(s[i])]) \o <<"\"">>

\* indent = -1 stands for Python's indent=None (one line, ", " between items)
NewlineIndent(indent, level) ==
    IF indent < 0 THEN <<>> ELSE <<"\n">> \o Spaces(indent * level)

ItemSeparator(indent) == IF indent < 0 THEN <<",", " ">> ELSE <<",">>

RECURSIVE JoinWith(_, _)
JoinWith(parts, sep) ==
    IF parts = <<>> THEN <<>>
    ELSE IF Len(parts) = 1 THEN parts[1]
    ELSE parts[1] \o sep \o JoinWith(Tail(parts), sep)

RECURSIVE Encode(_, _, _)
Encode(d, indent, level) ==
    CASE d.t = "num" -> DumpsNum(d.n)
      [] d.t = "str" -> DumpsStr(d.s)
      [] d.t = "arr" ->
            IF d.items = <<>> THEN <<"[", "]">>
            ELSE <<"[">> \o NewlineIndent(indent, level + 1)
                 \o JoinWith([i \in 1..Len(d.items) |-> Encode(d.items[i], indent, level + 1)],
                             ItemSeparator(indent) \o NewlineIndent(indent, level + 1))
                 \o NewlineIndent(indent, level) \o <<"]">>
      [] d.t = "obj" ->
            IF d.kvs = <<>> THEN <<"{", "}">>
            ELSE LET kvs == SortKvs(d.kvs) IN
                 <<"{">> \o NewlineIndent(indent, level + 1)
                 \o JoinWith([i \in 1..Len(kvs) |->
                                 DumpsStr(kvs[i][1]) \o <<":", " ">>
                                 \o Encode(kvs[i][2], indent, level + 1)],
                             ItemSeparator(indent) \o NewlineIndent(indent, level + 1))
                 \o NewlineIndent(indent, level) \o <<"}">>
      [] OTHER -> <<"N", "a", "N">>

\* json.dumps(obj, indent=indent, sort_keys=True, ensure_ascii=False,
\* allow_nan=False); DumpsRaises is its ValueError
DumpsRaises(d) == HasNaN(d)
Dumps(d, indent) == Encode(d, indent, 0)

\* ------------------------------------------------------------ json.loads

LoadsFail == [ok |-> FALSE, v |-> NaN, i |-> 0]

RECURSIVE SkipWs(_, _)
SkipWs(s, i) == IF i <= Len(s) /\ s[i] \in WHITESPACE THEN SkipWs(s, i + 1) ELSE i

Unescape(c) ==
    CASE c = "n" -> "\n" [] c = "r" -> "\r" [] c = "t" -> "\t" [] OTHER -> c

\* json.decoder.py_scanstring (strict): i is the index after the opening quote
RECURSIVE ScanString(_, _, _)
ScanString(s, i, acc) ==
    IF i > Len(s) THEN LoadsFail
    ELSE IF s[i] = "\"" THEN [ok |-> TRUE, v |-> Str(acc), i |-> i + 1]
    ELSE IF s[i] = "\\" THEN
        IF i + 1 <= Len(s) /\ s[i + 1] \in {"\"", "\\", "n", "r", "t"}
        THEN ScanString(s, i + 2, Append(acc, Unescape(s[i + 1])))
        ELSE LoadsFail
    ELSE IF s[i] \in {"\n", "\r", "\t"} THEN LoadsFail
    ELSE ScanString(s, i + 1, Append(acc, s[i]))

DigitValue(c) == CHOOSE n \in 0..9 : DigitChar[n + 1] = c
IsDigit(c) == \E n \in 0..9 : DigitChar[n + 1] = c

\* json.scanner NUMBER_RE, integers only: -?(0|[1-9][0-9]*)
RECURSIVE ScanDigits(_, _, _)
ScanDigits(s, i, acc) ==
    IF i <= Len(s) /\ IsDigit(s[i])
    THEN ScanDigits(s, i + 1, 10 * acc + DigitValue(s[i]))
    ELSE [ok |-> TRUE, v |-> Num(acc), i |-> i]

ScanNumber(s, i) ==
    LET neg == s[i] = "-"
        j == IF neg THEN i + 1 ELSE i
    IN  IF j > Len(s) \/ ~IsDigit(s[j]) THEN LoadsFail
        ELSE LET r == IF s[j] = "0" THEN [ok |-> TRUE, v |-> Num(0), i |-> j + 1]
                      ELSE ScanDigits(s, j, 0)
             IN  IF neg THEN [r EXCEPT !.v = Num(0 - r.v.n)] ELSE r

\* dict semantics of repeated keys: the last value, at the first position
RECURSIVE DictSet(_, _, _)
DictSet(kvs, k, v) ==
    IF kvs = <<>> THEN << <<k, v>> >>
    ELSE IF Head(kvs)[1] = k THEN << <<k, v>> >> \o Tail(kvs)
    ELSE <<Head(kvs)>> \o DictSet(Tail(kvs), k, v)

RECURSIVE ScanOnce(_, _)
RECURSIVE ScanArray(_, _, _)
RECURSIVE ScanObject(_, _, _)

\* json.decoder.JSONArray after "[" and whitespace: i is at a value
ScanArray(s, i, acc) ==
    LET r == ScanOnce(s, i) IN
    IF ~r.ok THEN LoadsFail
    ELSE LET j == SkipWs(s, r.i) IN
         IF j > Len(s) THEN LoadsFail
         ELSE IF s[j] = "]" THEN [ok |-> TRUE, v |-> Arr(Append(acc, r.v)), i |-> j + 1]
         ELSE IF s[j] = "," THEN ScanArray(s, SkipWs(s, j + 1), Append(acc, r.v))
         ELSE LoadsFail

\* json.decoder.JSONObject after "{" and whitespace: i is at a key's quote
ScanObject(s, i, acc) ==
    IF i > Len(s) \/ s[i] # "\"" THEN LoadsFail
    ELSE LET k == ScanString(s, i + 1, <<>>) IN
         IF ~k.ok THEN LoadsFail
         ELSE LET c == SkipWs(s, k.i) IN
              IF c > Len(s) \/ s[c] # ":" THEN LoadsFail
              ELSE LET r == ScanOnce(s, SkipWs(s, c + 1)) IN
                   IF ~r.ok THEN LoadsFail
                   ELSE LET j == SkipWs(s, r.i)
                            kvs == DictSet(acc, k.v.s, r.v)
                        IN  IF j > Len(s) THEN LoadsFail
                            ELSE IF s[j] = "}" THEN [ok |-> TRUE, v |-> Obj(kvs), i |-> j + 1]
                            ELSE IF s[j] = "," THEN ScanObject(s, SkipWs(s, j + 1), kvs)
                            ELSE LoadsFail

\* json.scanner.py_make_scanner _scan_once
ScanOnce(s, i) ==
    IF i > Len(s) THEN LoadsFail
    ELSE IF s[i] = "\"" THEN ScanString(s, i + 1, <<>>)
    ELSE IF s[i] = "{" THEN
        LET j == SkipWs(s, i + 1) IN
        IF j <= Len(s) /\ s[j] = "}" THEN [ok |-> TRUE, v |-> Obj(<<>>), i |-> j + 1]
        ELSE ScanObject(s, j, <<>>)
    ELSE IF s[i] = "[" THEN
        LET j == SkipWs(s, i + 1) IN
        IF j <= Len(s) /\ s[j] = "]" THEN [ok |-> TRUE, v |-> Arr(<<>>), i |-> j + 1]
        ELSE ScanArray(s, j, <<>>)
    ELSE IF s[i] = "-" \/ IsDigit(s[i]) THEN ScanNumber(s, i)
    ELSE IF i + 2 <= Len(s) /\ SubSeq(s, i, i + 2) = <<"N", "a", "N">> THEN [ok |-> TRUE, v |-> NaN, i |-> i + 3]
    ELSE LoadsFail

\* json.loads(text): one value, whitespace around it, nothing else;
\* ok = FALSE is json.JSONDecodeError
Loads(s) ==
    LET r == ScanOnce(s, SkipWs(s, 1)) IN
    IF r.ok /\ SkipWs(s, r.i) = Len(s) + 1 THEN [ok |-> TRUE, v |-> r.v]
    ELSE [ok |-> FALSE, v |-> NaN]

\* hash(text) of a Python str, taken to be free of collisions on the
\* texts of the model: the hash of a text is the text
Hash(s) == s

\* ------------------------------------------------------------ _reader

DefaultSeparator == <<"-", "-">>
DefaultIndent == 4

\* The generator _reader(file_obj, separator) between two of its yields:
\* the lines not yet consumed (json_buffer is empty there) and whether it
\* has returned or raised.
NewFramer(text) == [lines |-> Lines(text), finished |-> FALSE]

\* the loop with line.strip() in place of line.rstrip('\r\n')
RECURSIVE FramerLoop_strip(_, _, _)
FramerLoop_strip(lines, json_buffer, separator) ==
    IF lines = <<>> THEN
        [kind |-> IF StripIsEmpty(Concat(json_buffer)) THEN "StopIteration"
                  ELSE "AssertionError",
         chunk |-> <<>>,
         g |-> [lines |-> <<>>, finished |-> TRUE]]
    ELSE IF RStrip(Head(lines), WHITESPACE) # separator THEN
        FramerLoop_strip(Tail(lines), Append(json_buffer, Head(lines)), separator)
    ELSE [kind |-> "yield", chunk |-> json_buffer,
          g |-> [lines |-> Tail(lines), finished |-> FALSE]]

RECURSIVE FramerLoop(_, _, _)
FramerLoop(lines, json_buffer, separator) ==
    IF lines = <<>> THEN
        [kind |-> IF StripIsEmpty(Concat(json_buffer)) THEN "StopIteration"
                  ELSE "AssertionError",
         chunk |-> <<>>,
         g |-> [lines |-> <<>>, finished |-> TRUE]]
    ELSE IF RStrip(Head(lines), {"\r", "\n"}) # separator THEN
        FramerLoop(Tail(lines), Append(json_buffer, Head(lines)), separator)
    ELSE [kind |-> "yield", chunk |-> json_buffer,
          g |-> [lines |-> Tail(lines), finished |-> FALSE]]

\* next(_reader): resume the generator until its next yield or its end
_reader(g, separator) ==
    IF g.finished THEN [kind |-> "StopIteration", chunk |-> <<>>, g |-> g]
    ELSE FramerLoop(g.lines, <<>>, separator)

\* ------------------------------------------------------------ DumpReader

\* DumpReader.__init__; seen = None is unique = FALSE
DumpReader(text, separator, unique) ==
    [gen |-> NewFramer(text), separator |-> separator, unique |-> unique,
     seen |-> {}, obj_num |-> 0]

NoReader == DumpReader(<<>>, DefaultSeparator, FALSE)

\* __next__ that hashes the chunk's text as it stands in the input
RECURSIVE DumpReader_next_rawhash(_)
DumpReader_next_rawhash(r) ==
    LET f == _reader(r.gen, r.separator)
        r1 == [r EXCEPT !.gen = f.g]
    IN  IF f.kind # "yield" THEN [kind |-> f.kind, obj |-> NaN, r |-> r1]
        ELSE LET l == Loads(Concat(f.chunk)) IN
             IF ~l.ok THEN [kind |-> "JSONDecodeError", obj |-> NaN, r |-> r1]
             ELSE IF ~r.unique THEN
                 [kind |-> "obj", obj |-> l.v, r |-> [r1 EXCEPT !.obj_num = @ + 1]]
             ELSE IF DumpsRaises(l.v) THEN [kind |-> "ValueError", obj |-> NaN, r |-> r1]
             ELSE LET json_hash == Hash(Concat(f.chunk)) IN
                  IF json_hash \in r.seen THEN DumpReader_next_rawhash(r1)
                  ELSE [kind |-> "obj", obj |-> l.v,
                        r |-> [r1 EXCEPT !.seen = @ \cup {json_hash}, !.obj_num = @ + 1]]

\* DumpReader.__next__: kind is "obj" (obj returned) or the exception raised
RECURSIVE DumpReader_next(_)
DumpReader_next(r) ==
    LET f == _reader(r.gen, r.separator)
        r1 == [r EXCEPT !.gen = f.g]
    IN  IF f.kind # "yield" THEN [kind |-> f.kind, obj |-> NaN, r |-> r1]
        ELSE LET l == Loads(Concat(f.chunk)) IN
             IF ~l.ok THEN [kind |-> "JSONDecodeError", obj |-> NaN, r |-> r1]
             ELSE IF ~r.unique THEN
                 [kind |-> "obj", obj |-> l.v, r |-> [r1 EXCEPT !.obj_num = @ + 1]]
             ELSE IF DumpsRaises(l.v) THEN [kind |-> "ValueError", obj |-> NaN, r |-> r1]
             ELSE LET json_hash == Hash(Dumps(l.v, -1)) IN
                  IF json_hash \in r.seen THEN DumpReader_next(r1)
                  ELSE [kind |-> "obj", obj |-> l.v,
                        r |-> [r1 EXCEPT !.seen = @ \cup {json_hash}, !.obj_num = @ + 1]]

\* DumpReader.read: n next(self) calls, or `for obj in self` when n < 0
\* (n never reaches 0 then); StopIteration ends the loop, any other
\* exception leaves read.  kind is "return" or the exception raised, last
\* is how the last __next__ ended.
RECURSIVE ReadLoop(_, _, _, _)
RECURSIVE ReadAppend(_, _, _)

\* ret.append(next(self)), with res what next(self) did
ReadAppend(res, n, ret) ==
    IF res.kind = "obj" THEN ReadLoop(res.r, n - 1, Append(ret, res.obj), "obj")
    ELSE IF res.kind = "StopIteration"
    THEN [kind |-> "return", ret |-> ret, r |-> res.r, last |-> "StopIteration"]
    ELSE [kind |-> res.kind, ret |-> <<>>, r |-> res.r, last |-> res.kind]

ReadLoop(r, n, ret, last_kind) ==
    IF n = 0 THEN [kind |-> "return", ret |-> ret, r |-> r, last |-> last_kind]
    ELSE ReadAppend(DumpReader_next(r), n, ret)

\* read that takes every remaining object, whatever n is
read_all(r, n, last_kind) == ReadLoop(r, -1, <<>>, last_kind)

read(r, n, last_kind) == ReadLoop(r, n, <<>>, last_kind)

\* ------------------------------------------------------------ DumpWriter

\* DumpWriter.__init__
DumpWriter(separator, unique, indent) ==
    [separator |-> separator, separator_blob |-> <<"\n">> \o separator \o <<"\n">>,
     unique |-> unique, indent |-> indent, seen |-> {}, obj_num |-> 0]

NoWriter == DumpWriter(DefaultSeparator, FALSE, DefaultIndent)

\* write with the text and the separator on one line
write_glued(w, json_obj) ==
    IF DumpsRaises(json_obj) THEN [ret |-> "ValueError", text |-> <<>>, w |-> w]
    ELSE LET formatted_json == Dumps(json_obj, w.indent)
             json_hash == Hash(formatted_json)
         IN  IF w.unique /\ json_hash \in w.seen
             THEN [ret |-> "False", text |-> <<>>, w |-> w]
             ELSE [ret |-> "True",
                   text |-> formatted_json \o w.separator \o <<"\n">>,
                   w |-> [w EXCEPT !.seen = IF w.unique THEN @ \cup {json_hash} ELSE @,
                                   !.obj_num = @ + 1]]

\* write that never adds to seen
write_forgetful(w, json_obj) ==
    IF DumpsRaises(json_obj) THEN [ret |-> "ValueError", text |-> <<>>, w |-> w]
    ELSE LET formatted_json == Dumps(json_obj, w.indent)
             json_hash == Hash(formatted_json)
         IN  IF w.unique /\ json_hash \in w.seen
             THEN [ret |-> "False", text |-> <<>>, w |-> w]
             ELSE [ret |-> "True",
                   text |-> formatted_json \o w.separator_blob,
                   w |-> [w EXCEPT !.obj_num = @ + 1]]

\* write that counts a suppressed duplicate as written
write_counting(w, json_obj) ==
    IF DumpsRaises(json_obj) THEN [ret |-> "ValueError", text |-> <<>>, w |-> w]
    ELSE LET formatted_json == Dumps(json_obj, w.indent)
             json_hash == Hash(formatted_json)
         IN  IF w.unique /\ json_hash \in w.seen
             THEN [ret |-> "False", text |-> <<>>, w |-> [w EXCEPT !.obj_num = @ + 1]]
             ELSE [ret |-> "True",
                   text |-> formatted_json \o w.separator_blob,
                   w |-> [w EXCEPT !.seen = IF w.unique THEN @ \cup {json_hash} ELSE @,
                                   !.obj_num = @ + 1]]

\* DumpWriter.write(json_obj): ret is the value returned ("True", "False")
\* or the exception raised, text is what file_obj.write receives
write(w, json_obj) ==
    IF DumpsRaises(json_obj) THEN [ret |-> "ValueError", text |-> <<>>, w |-> w]
    ELSE LET formatted_json == Dumps(json_obj, w.indent)
             json_hash == Hash(formatted_json)
         IN  IF w.unique /\ json_hash \in w.seen
             THEN [ret |-> "False", text |-> <<>>, w |-> w]
             ELSE [ret |-> "True",
                   text |-> formatted_json \o w.separator_blob,
                   w |-> [w EXCEPT !.seen = IF w.unique THEN @ \cup {json_hash} ELSE @,
                                   !.obj_num = @ + 1]]

\* sum(self.write(obj) for obj in json_iterator): the writes are made one
\* by one as sum pulls them; an exception of a write ends the call.  kind
\* is "return" (n returned) or the exception, rets the writes' results,
\* text what file_obj.write received.
RECURSIVE WriteManyLoop(_, _, _, _, _)
WriteManyLoop(w, json_iterator, n, text, rets) ==
    IF json_iterator = <<>>
    THEN [kind |-> "return", n |-> n, text |-> text, rets |-> rets, w |-> w]
    ELSE LET res == write(w, Head(json_iterator))
             done == Append(rets, <<Head(json_iterator), res.ret>>)
         IN  IF res.ret \notin {"True", "False"}
             THEN [kind |-> res.ret, n |-> 0, text |-> text, rets |-> done, w |-> res.w]
             ELSE WriteManyLoop(res.w, Tail(json_iterator),
                                n + (IF res.ret = "True" THEN 1 ELSE 0),
                                text \o res.text, done)

\* writemany that returns the number of documents it was given
writemany_len(w, json_iterator) ==
    [WriteManyLoop(w, json_iterator, 0, <<>>, <<>>) EXCEPT !.n = Len(json_iterator)]

\* DumpWriter.writemany(json_iterator)
writemany(w, json_iterator) == WriteManyLoop(w, json_iterator, 0, <<>>, <<>>)

\* ------------------------------------------------------------ state

VARIABLES
    \* a DumpWriter over an in-memory text stream, then a DumpReader over
    \* the text it produced
    wr,         \* the DumpWriter
    out,        \* the text written to the writer's file_obj
    calls,      \* the write calls made so far: <<json_obj, ret>>
    phase,      \* "write", then "read"
    rd,         \* the DumpReader
    got,        \* the objects __next__ returned so far
    last,       \* how the last __next__ ended
    \* DumpOpener transactions over a directory of files
    dir,        \* path -> inode number, 0 when the path does not exist
    ino,        \* inode number -> the file's bytes
    op,         \* transaction -> its DumpOpener object and its progress
    \* the generator _reader over a sequence of lines
    src,        \* the lines and the separator it was called with
    gen,        \* the generator
    chunks,     \* the buffers it yielded so far
    fend,       \* how it ended: "none", "StopIteration", "AssertionError"
    \* calls of DumpReader.read, DumpWriter.writemany and load
    reads,      \* the read calls made so far: [n, ret, kind]
    wm,         \* the writemany calls made so far: [docs, ret, base]
    ld,         \* the generator load
    given       \* the chunks of the text a reader was opened on

varsS == <<wr, out, calls, phase, rd, got, last>>
varsF == <<dir, ino, op>>
varsX == <<src, gen, chunks, fend, reads, wm, ld, given>>
vars == <<varsS, varsF, varsX>>

\* ------------------------------------------------------------ inputs

Key(c) == <<c>>
DocA1B2 == Obj(<< <<Key("a"), Num(1)>>, <<Key("b"), Num(2)>> >>)
DocB2A1 == Obj(<< <<Key("b"), Num(2)>>, <<Key("a"), Num(1)>> >>)
Docs ==
    { Num(1), Str(<<"-", "-">>), Str(<<"\n", "-", "-", "\n">>),
      DocA1B2, DocB2A1, Arr(<<Num(1), Obj(<<>>)>>), NaN }

\* the documents writemany is handed
ManyDocs == { DocA1B2, DocB2A1, NaN }

Separators == { DefaultSeparator, <<"}">> }
Indents == { -1, 0, DefaultIndent }

\* ------------------------------------------------------------ files

\* inodes the directory and the open files can hold at once
MaxIno == 3

Txn == {"t1", "t2"}

\* final paths (basenames in one directory) and the staging path of each
PathPlain == <<"d">>
PathDotGz == <<"d", ".", "g", "z">>
PathGz == <<"d", "g", "z">>
Paths == {PathPlain, PathDotGz, PathGz}
Staging(path) == path \o <<".", "p", "a", "r", "t", "i", "a", "l">>
AllPaths == Paths \cup {Staging(p) : p \in Paths}

\* A byte of a file is <<transport, character>>: "p" a character of plain
\* text, "z" a character inside a gzip member, "h" the gzip header (its two
\* magic bytes 1f 8b), "e" the gzip trailer, "0" a NUL of a hole.
PlainBytes(text) == [i \in 1..Len(text) |-> <<"p", text[i]>>]
GzBytes(text) == [i \in 1..Len(text) |-> <<"z", text[i]>>]
GzHeader == << <<"h", "1f">>, <<"h", "8b">> >>
GzTrailer == << <<"e", "crc">> >>
Nul == <<"0", "0">>

\* a file object: the inode it is open on, its offset, whether it appends
\* (O_APPEND), what opened it: "text" (io.open 't'), "binary" (io.open 'b')
\* or "gzip" (gzip.open 't'), and the bytes written to it that are still in
\* the process (the buffers of TextIOWrapper, GzipFile and BufferedWriter)
NoFile == [ino |-> 0, pos |-> 0, append |-> FALSE, kind |-> "None", closed |-> FALSE,
           buf |-> <<>>]

FileAt(p) == IF dir[p] = 0 THEN [exists |-> FALSE, data |-> <<>>]
             ELSE [exists |-> TRUE, data |-> ino[dir[p]]]

\* write(2) at the file object's offset
Overwrite(data, pos, bytes) ==
    LET padded == IF pos > Len(data)
                  THEN data \o [i \in 1..(pos - Len(data)) |-> Nul]
                  ELSE data
    IN  SubSeq(padded, 1, pos) \o bytes
        \o SubSeq(padded, pos + Len(bytes) + 1, Len(padded))

WriteBytes(inodes, f, bytes) ==
    IF bytes = <<>> THEN inodes
    ELSE [inodes EXCEPT ![f.ino] = IF f.append THEN @ \o bytes
                                   ELSE Overwrite(@, f.pos, bytes)]

Advance(f, inodes, bytes) ==
    IF bytes = <<>> THEN f
    ELSE [f EXCEPT !.pos = IF f.append THEN Len(inodes[f.ino]) ELSE @ + Len(bytes)]

\* io.open(path, 'rt'): the text of a file's bytes.  A byte of a gzip
\* header is not UTF-8, and the small files of the model are decoded in one
\* piece, so the first read raises.
DecodePlain(data) ==
    IF \A i \in 1..Len(data) : data[i][1] \in {"p", "0"}
    THEN [text |-> [i \in 1..Len(data) |-> IF data[i] = Nul THEN "NUL" ELSE data[i][2]],
          err |-> "None"]
    ELSE [text |-> <<>>, err |-> "UnicodeDecodeError"]

\* gzip.open(path, 'rt'): the text of the file's gzip members, one after the
\* other, up to the first thing that is not a member; err is what the read
\* that gets there raises
RECURSIVE DecodeMember(_, _, _)
RECURSIVE DecodeGzip(_, _, _)
DecodeMember(data, i, text) ==
    IF i > Len(data) THEN [text |-> text, err |-> "EOFError"]
    ELSE IF data[i][1] = "z" THEN DecodeMember(data, i + 1, Append(text, data[i][2]))
    ELSE IF <<data[i]>> = GzTrailer THEN DecodeGzip(data, i + 1, text)
    ELSE [text |-> text, err |-> "BadGzipFile"]

DecodeGzip(data, i, text) ==
    IF i > Len(data) THEN [text |-> text, err |-> "None"]
    ELSE IF i + 1 > Len(data) THEN [text |-> text, err |-> "EOFError"]
    ELSE IF SubSeq(data, i, i + 1) # GzHeader THEN [text |-> text, err |-> "BadGzipFile"]
    ELSE DecodeMember(data, i + 2, text)

\* the DumpOpener object of a transaction, with the position of the code
\* that runs it (pc), the exception it ended with (exc), the exception its
\* with-body raised (body_exc), the file system calls it made (io), the
\* text its body handed to the stream (sent) and the documents that text
\* is made of (wrote), the DumpReader of mode 'r'
\* (r) with the error its file object raises where its text ends (read_err),
\* the objects the body received (recv), how its last __next__ ended
\* (r_last), and what its final and staging paths held when it was
\* constructed (pre, pre_temp)
NewOpener ==
    [pc |-> "new", mode |-> <<>>, path |-> <<>>, gz_arg |-> "None", unique |-> TRUE,
     opn |-> "None", temp_path |-> <<>>, file_obj |-> NoFile, gz |-> "None",
     rw_obj |-> "None", stream |-> "None", w |-> NoWriter,
     r |-> NoReader, read_err |-> "None", recv |-> <<>>, r_last |-> "none",
     wrote |-> <<>>,
     exc |-> "None", body_exc |-> "None", io |-> <<>>, sent |-> <<>>, ncalls |-> 0,
     installed |-> FALSE,
     pre |-> [exists |-> FALSE, data |-> <<>>],
     pre_temp |-> [exists |-> FALSE, data |-> <<>>]]

Terminal == {"done", "raised", "killed"}

Raise(o, e) == [o EXCEPT !.pc = "raised", !.exc = e]

\* the inodes a path or an open file object of a running process names
Referenced(d, o) ==
    {d[p] : p \in AllPaths}
    \cup {o[t].file_obj.ino : t \in {u \in Txn : o[u].pc \notin Terminal
                                               /\ ~o[u].file_obj.closed}}

\* an inode no path and no open file names any more is freed
Collect(inodes, d, o) ==
    [i \in 1..MaxIno |-> IF i \in Referenced(d, o) THEN inodes[i] ELSE <<>>]

FreshIno == CHOOSE i \in 1..MaxIno :
                /\ i \notin Referenced(dir, op)
                /\ \A j \in 1..(i - 1) : j \in Referenced(dir, op)

IdleFiles ==
    /\ dir = [p \in AllPaths |-> 0]
    /\ ino = [i \in 1..MaxIno |-> <<>>]
    /\ op = [t \in Txn |-> NewOpener]

NoLoad == [files |-> <<>>, paths |-> <<>>, i |-> 0, unique |-> FALSE, seen |-> {},
           f |-> NoReader, open |-> FALSE, finished |-> TRUE]

IdleFramer ==
    /\ src = [lines |-> <<>>, separator |-> DefaultSeparator]
    /\ gen = [lines |-> <<>>, finished |-> TRUE]
    /\ chunks = <<>>
    /\ fend = "none"

IdleCalls ==
    /\ reads = <<>>
    /\ wm = <<>>
    /\ ld = NoLoad
    /\ given = <<>>

\* ------------------------------------------------------------ stream

InitS ==
    /\ \E separator \in Separators, unique \in BOOLEAN, indent \in Indents :
           wr = DumpWriter(separator, unique, indent)
    /\ out = <<>>
    /\ calls = <<>>
    /\ phase = "write"
    /\ rd = NoReader
    /\ got = <<>>
    /\ last = "none"
    /\ IdleFiles
    /\ IdleFramer
    /\ IdleCalls

\* writer.write(json_obj) on the stream
SWrite(json_obj) ==
    /\ phase = "write"
    /\ Len(calls) < MaxDocs
    /\ LET res == write(wr, json_obj) IN
       /\ wr' = res.w
       /\ out' = out \o res.text
       /\ calls' = Append(calls, <<json_obj, res.ret>>)
    /\ UNCHANGED <<phase, rd, got, last>>
    /\ UNCHANGED <<varsF, varsX>>

\* writer.writemany(json_iterator) on the stream
SWriteMany(json_iterator) ==
    /\ phase = "write"
    /\ Len(calls) + Len(json_iterator) <= MaxDocs
    /\ Len(wm) < MaxMany
    /\ LET res == writemany(wr, json_iterator) IN
       /\ wr' = res.w
       /\ out' = out \o res.text
       /\ calls' = calls \o res.rets
       /\ wm' = Append(wm, [docs |-> json_iterator, kind |-> res.kind, n |-> res.n,
                            base |-> Len(calls)])
    /\ UNCHANGED <<phase, rd, got, last>>
    /\ UNCHANGED <<src, gen, chunks, fend, reads, ld, given>>
    /\ UNCHANGED varsF

\* DumpReader(f, separator, unique) over the text written
SOpenReader(unique) ==
    /\ phase = "write"
    /\ phase' = "read"
    /\ rd' = DumpReader(out, wr.separator, unique)
    /\ UNCHANGED <<wr, out, calls, got, last>>
    /\ UNCHANGED <<varsF, varsX>>

\* next(reader)
SNext ==
    /\ phase = "read"
    /\ last \notin {"StopIteration", "AssertionError"}
    /\ LET res == DumpReader_next(rd) IN
       /\ rd' = res.r
       /\ last' = res.kind
       /\ got' = IF res.kind = "obj" THEN Append(got, res.obj) ELSE got
    /\ UNCHANGED <<wr, out, calls, phase>>
    /\ UNCHANGED <<varsF, varsX>>

NextS ==
    \/ \E json_obj \in Docs : SWrite(json_obj)
    \/ \E unique \in BOOLEAN : SOpenReader(unique)
    \/ SNext

SpecStream == InitS /\ [][NextS]_vars

\* a writer session of write and writemany calls
NextMany ==
    \/ \E json_obj \in Docs : SWrite(json_obj)
    \/ \E json_iterator \in SeqsUpTo(ManyDocs, MaxDocs) : SWriteMany(json_iterator)

SpecMany == InitS /\ [][NextMany]_vars

\* ------------------------------------------------------------ DumpOpener

ModeR == <<"r">>
ModeW == <<"w">>
ModeA == <<"a">>
ModeX == <<"x">>
Modes == { ModeR, ModeW, ModeA, ModeX, <<>>, <<"r", "w">>, <<"r", "a">>,
           <<"a", "x">>, <<"b">> }
GzArgs == {"None", "True", "False"}
FileDocs == { Num(1), Num(2), NaN }

\* the file a transaction may find at its final path: one document,
\* written earlier in plain text or in gzip
OldText == Dumps(Num(0), DefaultIndent) \o <<"\n">> \o DefaultSeparator \o <<"\n">>
OldFiles == { PlainBytes(OldText), GzHeader \o GzBytes(OldText) \o GzTrailer }

IdleStream ==
    /\ wr = NoWriter
    /\ out = <<>>
    /\ calls = <<>>
    /\ phase = "idle"
    /\ rd = NoReader
    /\ got = <<>>
    /\ last = "none"

InitF ==
    /\ IdleStream
    /\ IdleFramer
    /\ IdleCalls
    /\ op = [t \in Txn |-> NewOpener]
    /\ \E present \in {{}} \cup {{p} : p \in Paths}, old \in OldFiles :
        /\ dir = [p \in AllPaths |-> IF p \in present THEN 1 ELSE 0]
        /\ ino = [i \in 1..MaxIno |-> IF i = 1 /\ present # {} THEN old ELSE <<>>]

\* one step of transaction t: its object becomes o, the directory d, the
\* inodes i
Step(t, o, d, i) ==
    /\ op' = [op EXCEPT ![t] = o]
    /\ dir' = d
    /\ ino' = Collect(i, d, [op EXCEPT ![t] = o])
    /\ UNCHANGED <<varsS, varsX>>

Called(o, call) == [o EXCEPT !.io = Append(@, call)]

\* __init__ from "create file obj and reader/writer": mode == 'r', else
\* assert mode == 'a'
AfterOpenChoice(o) ==
    IF o.mode = ModeR \/ o.mode = ModeA THEN [o EXCEPT !.pc = "open_ra"]
    ELSE Raise(o, "AssertionError")

\* __init__ up to its first file system call
Construct(t, mode, path, gz, unique) ==
    /\ op[t].pc = "new"
    /\ LET o == [op[t] EXCEPT !.mode = mode, !.path = path, !.gz_arg = gz,
                              !.unique = unique, !.pre = FileAt(path),
                              !.pre_temp = FileAt(Staging(path))]
       IN  Step(t,
                IF ~IsSubstring(mode, <<"r", "w", "a", "x">>) THEN Raise(o, "IOError")
                ELSE IF IsSubstring(mode, <<"r", "a">>) THEN
                    IF gz = "None" THEN [o EXCEPT !.pc = "sniff"]
                    ELSE AfterOpenChoice(
                             [o EXCEPT !.opn = IF gz = "True" THEN "gzip.open"
                                               ELSE "io.open"])
                ELSE IF ~IsSubstring(mode, <<"w", "x">>) THEN Raise(o, "AssertionError")
                ELSE IF mode = ModeX THEN [o EXCEPT !.pc = "x_check"]
                ELSE [o EXCEPT !.pc = "open_stage"],
                dir, ino)

\* the sniff that takes every file for plain text
Sniff_plain(t) ==
    /\ op[t].pc = "sniff"
    /\ LET o == Called(op[t], "open(rb)")
           f == FileAt(o.path)
       IN  Step(t,
                IF ~f.exists THEN Raise(o, "FileNotFoundError")
                ELSE AfterOpenChoice([o EXCEPT !.opn = "io.open"]),
                dir, ino)

\* gz is None in mode 'r'/'a': io.open(self.path, 'rb') and f.read(2)
Sniff(t) ==
    /\ op[t].pc = "sniff"
    /\ LET o == Called(op[t], "open(rb)")
           f == FileAt(o.path)
           b == SubSeq(f.data, 1, IF Len(f.data) < 2 THEN Len(f.data) ELSE 2)
       IN  Step(t,
                IF ~f.exists THEN Raise(o, "FileNotFoundError")
                ELSE AfterOpenChoice(
                         [o EXCEPT !.opn = IF b = GzHeader THEN "gzip.open"
                                           ELSE "io.open"]),
                dir, ino)

\* the open of mode 'a' that appends plain text whatever the file holds
OpenRA_text(t) ==
    /\ op[t].pc = "open_ra"
    /\ LET o == Called(op[t], IF op[t].mode = ModeR THEN "open(rt)" ELSE "open(at)")
           kind == IF o.mode = ModeR /\ o.opn = "gzip.open" THEN "gzip" ELSE "text"
           n == IF dir[o.path] = 0 THEN FreshIno ELSE dir[o.path]
       IN  IF o.mode = ModeR THEN
               Step(t,
                    IF dir[o.path] = 0 THEN Raise(o, "FileNotFoundError")
                    ELSE LET dec == IF kind = "gzip" THEN DecodeGzip(ino[n], 1, <<>>)
                                    ELSE DecodePlain(ino[n])
                         IN  [o EXCEPT !.pc = "body", !.rw_obj = "DumpReader",
                                       !.stream = "file_obj",
                                       !.file_obj = [NoFile EXCEPT !.ino = n, !.kind = kind],
                                       !.r = DumpReader(dec.text, DefaultSeparator, o.unique),
                                       !.read_err = dec.err],
                    dir, ino)
           ELSE
               LET hdr == IF kind = "gzip" THEN GzHeader ELSE <<>>
                   f == [NoFile EXCEPT !.ino = n, !.kind = kind, !.append = TRUE,
                                       !.pos = Len(ino[n]), !.buf = hdr]
               IN  Step(t,
                        [o EXCEPT !.pc = "body", !.rw_obj = "DumpWriter",
                                  !.stream = "file_obj",
                                  !.file_obj = f,
                                  !.w = DumpWriter(DefaultSeparator, o.unique, DefaultIndent)],
                        [dir EXCEPT ![o.path] = n], ino)

\* _open(self.path, mode='rt') or _open(self.path, mode='at'), and the
\* DumpReader or DumpWriter over it.  No other transaction writes the file
\* while a reader is open on it, so what the reader will read is taken here.
OpenRA(t) ==
    /\ op[t].pc = "open_ra"
    /\ LET o == Called(op[t], IF op[t].mode = ModeR THEN "open(rt)" ELSE "open(at)")
           kind == IF o.opn = "gzip.open" THEN "gzip" ELSE "text"
           n == IF dir[o.path] = 0 THEN FreshIno ELSE dir[o.path]
       IN  IF o.mode = ModeR THEN
               Step(t,
                    IF dir[o.path] = 0 THEN Raise(o, "FileNotFoundError")
                    ELSE LET dec == IF kind = "gzip" THEN DecodeGzip(ino[n], 1, <<>>)
                                    ELSE DecodePlain(ino[n])
                         IN  [o EXCEPT !.pc = "body", !.rw_obj = "DumpReader",
                                       !.stream = "file_obj",
                                       !.file_obj = [NoFile EXCEPT !.ino = n, !.kind = kind],
                                       !.r = DumpReader(dec.text, DefaultSeparator, o.unique),
                                       !.read_err = dec.err],
                    dir, ino)
           ELSE
               LET hdr == IF kind = "gzip" THEN GzHeader ELSE <<>>
                   f == [NoFile EXCEPT !.ino = n, !.kind = kind, !.append = TRUE,
                                       !.pos = Len(ino[n]), !.buf = hdr]
               IN  Step(t,
                        [o EXCEPT !.pc = "body", !.rw_obj = "DumpWriter",
                                  !.stream = "file_obj",
                                  !.file_obj = f,
                                  !.w = DumpWriter(DefaultSeparator, o.unique, DefaultIndent)],
                        [dir EXCEPT ![o.path] = n], ino)

\* __init__ without the existence check of mode 'x'
XCheck_unchecked(t) ==
    /\ op[t].pc = "x_check"
    /\ Step(t, [op[t] EXCEPT !.pc = "open_stage"], dir, ino)

\* mode == 'x' and os.path.exists(self.path)
XCheck(t) ==
    /\ op[t].pc = "x_check"
    /\ LET o == Called(op[t], "exists") IN
       Step(t,
            IF dir[o.path] # 0 THEN Raise(o, "FileExistsError")
            ELSE [o EXCEPT !.pc = "open_stage"],
            dir, ino)

\* __init__ "normalize filename" to "determine whether to use gzip": what
\* self.gz ends as ("None", "True" or the "Wrapper" TextIOWrapper of a
\* GzipFile) and how the staging file is opened
ChooseTransport(path, gz_arg) ==
    LET dotgz == EndsWith(path, <<".", "g", "z">>)
        filename == IF dotgz THEN SubSeq(path, 1, Len(path) - 3) ELSE path
        self_gz == IF dotgz \/ EndsWith(filename, <<"g", "z">>) THEN "True" ELSE "None"
    IN  IF gz_arg = "None" THEN
            IF self_gz = "True" THEN [gz |-> "Wrapper", kind |-> "binary"]
            ELSE [gz |-> "None", kind |-> "text"]
        ELSE IF gz_arg = "True" THEN [gz |-> "Wrapper", kind |-> "binary"]
        ELSE [gz |-> self_gz, kind |-> "text"]

\* io.open(self.temp_path, 'wb' or 'wt'), which creates or truncates the
\* staging file, the GzipFile over it (which writes its header into the
\* file object's buffer), and the DumpWriter
OpenStage(t) ==
    /\ op[t].pc = "open_stage"
    /\ LET o == Called(op[t], "open(w)")
           temp_path == Staging(o.path)
           tr == ChooseTransport(o.path, o.gz_arg)
           n == IF dir[temp_path] = 0 THEN FreshIno ELSE dir[temp_path]
           hdr == IF tr.gz = "Wrapper" THEN GzHeader ELSE <<>>
           f == [NoFile EXCEPT !.ino = n, !.kind = tr.kind, !.buf = hdr]
           i2 == [ino EXCEPT ![n] = <<>>]
       IN  Step(t,
                [o EXCEPT !.pc = "body", !.temp_path = temp_path, !.gz = tr.gz,
                          !.file_obj = f,
                          !.rw_obj = "DumpWriter",
                          !.stream = IF tr.gz = "None" THEN "file_obj"
                                     ELSE IF tr.gz = "Wrapper" THEN "gz" ELSE "True",
                          !.w = DumpWriter(DefaultSeparator, o.unique, DefaultIndent)],
                [dir EXCEPT ![temp_path] = n], i2)

\* the bytes a text takes on the way from the writer's stream to the file
Transport(o, text) ==
    IF o.stream = "gz" \/ o.file_obj.kind = "gzip" THEN GzBytes(text)
    ELSE PlainBytes(text)

\* the file object's buffered bytes go to the file, at its offset
Flushed(inodes, f, more) ==
    LET bytes == f.buf \o more
        i2 == WriteBytes(inodes, f, bytes)
    IN  [ino |-> i2, f |-> [Advance(f, i2, bytes) EXCEPT !.buf = <<>>]]

\* the with-body calls f.write(json_obj) on the DumpWriter; the text stays
\* in the stream's buffer
BodyWrite(t, json_obj) ==
    /\ op[t].pc = "body"
    /\ op[t].rw_obj = "DumpWriter"
    /\ op[t].ncalls < MaxWrites
    /\ LET o == [op[t] EXCEPT !.ncalls = @ + 1]
           res == write(o.w, json_obj)
       IN  IF res.ret = "ValueError" THEN
               Step(t, [o EXCEPT !.pc = "exit_gz", !.body_exc = "ValueError"], dir, ino)
           ELSE IF res.ret = "False" THEN
               Step(t, o, dir, ino)
           ELSE IF o.stream = "True" THEN
               \* self.file_obj is the bool True: seen.add ran, write raises
               Step(t, [o EXCEPT !.pc = "exit_gz", !.body_exc = "AttributeError",
                                 !.w.seen = res.w.seen],
                    dir, ino)
           ELSE
               Step(t, [o EXCEPT !.w = res.w,
                                 !.sent = @ \o res.text,
                                 !.wrote = Append(@, json_obj),
                                 !.file_obj.buf = @ \o Transport(o, res.text)],
                    dir, ino)

\* a write found the buffer full: what is buffered goes to the file.  The
\* documents of the model are small, so the buffer fills between two of
\* them.
BodyFlush(t) ==
    /\ op[t].pc = "body"
    /\ op[t].rw_obj = "DumpWriter"
    /\ op[t].file_obj.buf # <<>>
    /\ LET o == Called(op[t], "write")
           fl == Flushed(ino, o.file_obj, <<>>)
       IN  Step(t, [o EXCEPT !.file_obj = fl.f], dir, fl.ino)

\* the with-body calls next(f) on the DumpReader; the file object raises
\* its error where the generator would have found the end of the file, and
\* an exception other than StopIteration leaves the body
BodyNext(t) ==
    /\ op[t].pc = "body"
    /\ op[t].rw_obj = "DumpReader"
    /\ op[t].r_last # "StopIteration"
    /\ \E res \in {DumpReader_next(op[t].r)} :
       \E kind \in {IF res.r.gen.finished /\ res.kind # "obj" /\ op[t].read_err # "None"
                     THEN op[t].read_err ELSE res.kind} :
       \E o \in {[Called(op[t], "read") EXCEPT
                      !.r = res.r, !.r_last = kind,
                      !.recv = IF kind = "obj" THEN Append(@, res.obj) ELSE @]} :
           Step(t,
                IF kind \in {"obj", "StopIteration"} THEN o
                ELSE [o EXCEPT !.pc = "exit_gz", !.body_exc = kind],
                dir, ino)

\* the with-body raises an exception of its own
BodyRaise(t) ==
    /\ op[t].pc = "body"
    /\ Step(t, [op[t] EXCEPT !.pc = "exit_gz", !.body_exc = "Exception"], dir, ino)

\* the with-body ends
BodyEnd(t) ==
    /\ op[t].pc = "body"
    /\ Step(t, [op[t] EXCEPT !.pc = "exit_gz"], dir, ino)

\* __exit__ returns None: an exception of the body propagates
Finish(o) ==
    IF o.body_exc # "None" THEN Raise(o, o.body_exc) ELSE [o EXCEPT !.pc = "done"]

\* __exit__: if self.gz is not None: self.gz.close().  Closing the
\* TextIOWrapper flushes the GzipFile and the file object under it, then
\* the GzipFile writes its trailer into the file object's buffer.
ExitGz(t) ==
    /\ op[t].pc = "exit_gz"
    /\ LET o == op[t] IN
       IF o.gz = "None" THEN Step(t, [o EXCEPT !.pc = "exit_file"], dir, ino)
       ELSE IF o.gz = "True" THEN Step(t, Raise(o, "AttributeError"), dir, ino)
       ELSE LET fl == Flushed(ino, o.file_obj, <<>>) IN
            Step(t, [Called(o, "write") EXCEPT
                         !.pc = "exit_file",
                         !.file_obj = [fl.f EXCEPT !.buf = GzTrailer]],
                 dir, fl.ino)

\* __exit__: self.file_obj.close(), which writes what is still buffered
ExitFile(t) ==
    /\ op[t].pc = "exit_file"
    /\ LET o == Called(op[t], "close")
           tail == IF o.file_obj.kind = "gzip" /\ o.file_obj.append THEN GzTrailer ELSE <<>>
           fl == Flushed(ino, o.file_obj, tail)
           closed == [o EXCEPT !.file_obj = [fl.f EXCEPT !.closed = TRUE]]
       IN  Step(t,
                IF o.temp_path = <<>> THEN Finish(closed)
                ELSE [closed EXCEPT !.pc = "exit_check"],
                dir, fl.ino)

\* __exit__: if os.path.exists(self.path): if self.mode == 'x': raise
ExitCheck(t) ==
    /\ op[t].pc = "exit_check"
    /\ LET o == Called(op[t], "exists") IN
       Step(t,
            IF dir[o.path] # 0 THEN
                IF o.mode = ModeX THEN Raise(o, "FileExistsError")
                ELSE [o EXCEPT !.pc = "exit_remove"]
            ELSE [o EXCEPT !.pc = "exit_rename"],
            dir, ino)

\* __exit__: os.remove(self.path)
ExitRemove(t) ==
    /\ op[t].pc = "exit_remove"
    /\ LET o == Called(op[t], "remove") IN
       IF dir[o.path] = 0 THEN Step(t, Raise(o, "FileNotFoundError"), dir, ino)
       ELSE Step(t, [o EXCEPT !.pc = "exit_rename"], [dir EXCEPT ![o.path] = 0], ino)

\* __exit__: os.rename(self.temp_path, self.path), as POSIX rename(2)
ExitRename(t) ==
    /\ op[t].pc = "exit_rename"
    /\ LET o == Called(op[t], "rename") IN
       IF dir[o.temp_path] = 0 THEN Step(t, Raise(o, "FileNotFoundError"), dir, ino)
       ELSE Step(t, Finish([o EXCEPT !.installed = TRUE]),
                 [dir EXCEPT ![o.path] = dir[o.temp_path], ![o.temp_path] = 0], ino)

\* the process running the transaction is killed: what it had buffered
\* is lost
Kill(t) ==
    /\ op[t].pc \notin Terminal \cup {"new"}
    /\ Step(t, [op[t] EXCEPT !.pc = "killed", !.file_obj.buf = <<>>], dir, ino)

\* one transaction, every mode, path and gz argument
Next ==
    \E t \in {"t1"} :
        \/ \E mode \in Modes, path \in Paths, gz \in GzArgs, unique \in BOOLEAN :
               Construct(t, mode, path, gz, unique)
        \/ Sniff(t)
        \/ OpenRA(t)
        \/ XCheck(t)
        \/ OpenStage(t)
        \/ \E json_obj \in FileDocs : BodyWrite(t, json_obj)
        \/ BodyFlush(t)
        \/ BodyNext(t)
        \/ BodyRaise(t)
        \/ BodyEnd(t)
        \/ ExitGz(t)
        \/ ExitFile(t)
        \/ ExitCheck(t)
        \/ ExitRemove(t)
        \/ ExitRename(t)
        \/ Kill(t)

Spec == InitF /\ [][Next]_vars

\* a write or append transaction, then, once it has ended, a read
\* transaction on the same path
SeqDocs == { Num(0), Num(1) }

NextSeq ==
    \/ \E t \in {"t1"} :
        \/ \E mode \in {ModeW, ModeX, ModeA}, path \in Paths, gz \in GzArgs,
              unique \in BOOLEAN :
               Construct(t, mode, path, gz, unique)
        \/ Sniff(t)
        \/ OpenRA(t)
        \/ XCheck(t)
        \/ OpenStage(t)
        \/ \E json_obj \in SeqDocs : BodyWrite(t, json_obj)
        \/ BodyFlush(t)
        \/ BodyEnd(t)
        \/ ExitGz(t)
        \/ ExitFile(t)
        \/ ExitCheck(t)
        \/ ExitRemove(t)
        \/ ExitRename(t)
    \/ \E t \in {"t2"} :
        /\ op["t1"].pc \in Terminal
        /\ \/ \E gz \in GzArgs, unique \in BOOLEAN :
                  Construct(t, ModeR, op["t1"].path, gz, unique)
           \/ Sniff(t)
           \/ OpenRA(t)
           \/ BodyNext(t)
           \/ BodyEnd(t)
           \/ ExitGz(t)
           \/ ExitFile(t)

SpecSeq == InitF /\ [][NextSeq]_vars

\* two write transactions on one final path, their steps interleaved
RaceDoc(t) == IF t = "t1" THEN Num(1) ELSE Num(2)

InitRace ==
    /\ IdleStream
    /\ IdleFramer
    /\ IdleCalls
    /\ op = [t \in Txn |-> NewOpener]
    /\ \E present \in {{}, {PathPlain}} :
        /\ dir = [p \in AllPaths |-> IF p \in present THEN 1 ELSE 0]
        /\ ino = [i \in 1..MaxIno |->
                     IF i = 1 /\ present # {} THEN PlainBytes(OldText) ELSE <<>>]

NextRace ==
    \E t \in Txn :
        \/ \E mode \in {ModeW, ModeX} : Construct(t, mode, PathPlain, "None", FALSE)
        \/ XCheck(t)
        \/ OpenStage(t)
        \/ BodyWrite(t, RaceDoc(t))
        \/ BodyFlush(t)
        \/ BodyEnd(t)
        \/ ExitGz(t)
        \/ ExitFile(t)
        \/ ExitCheck(t)
        \/ ExitRemove(t)
        \/ ExitRename(t)

SpecRace == InitRace /\ [][NextRace]_vars

\* ------------------------------------------------------------ framer

\* lines _reader may be handed, and how many of them
MaxLines == 3
InputLines ==
    { <<"-", "-", "\n">>, <<"-", "-", "\r", "\n">>, <<"-", "-">>,
      <<"-", "-", " ", "\n">>, <<" ", "-", "-", "\n">>, <<"a", "-", "-", "\n">>,
      <<"1", "\n">>, <<" ", "\n">>, <<"}", "\n">> }

\* _reader(file_obj, separator) is called: the generator is created
InitFramer ==
    /\ IdleStream
    /\ IdleFiles
    /\ IdleCalls
    /\ \E lines \in SeqsUpTo(InputLines, MaxLines), separator \in Separators :
        /\ src = [lines |-> lines, separator |-> separator]
        /\ gen = [lines |-> lines, finished |-> FALSE]
    /\ chunks = <<>>
    /\ fend = "none"

\* next(generator)
FNext ==
    /\ fend = "none"
    /\ ~gen.finished
    /\ LET res == _reader(gen, src.separator) IN
       /\ gen' = res.g
       /\ chunks' = IF res.kind = "yield" THEN Append(chunks, res.chunk) ELSE chunks
       /\ fend' = IF res.kind = "yield" THEN "none" ELSE res.kind
    /\ UNCHANGED <<src, reads, wm, ld, given>>
    /\ UNCHANGED <<varsS, varsF>>

NextFramer == FNext

SpecFramer == InitFramer /\ [][NextFramer]_vars

\* ------------------------------------------------------------ reader

\* chunks a reader's input is made of, each with the document it encodes:
\* strict JSON in two spellings, the NaN json.loads accepts, and text that
\* is not JSON
MaxChunks == 2
MaxReads == 2
InputChunks ==
    { [text |-> <<"1">>, json |-> TRUE, doc |-> Num(1)],
      [text |-> <<" ", "1">>, json |-> TRUE, doc |-> Num(1)],
      [text |-> <<"{", "\"", "a", "\"", ":", "1", ",", "\"", "b", "\"", ":", "2", "}">>,
       json |-> TRUE, doc |-> DocA1B2],
      [text |-> <<"{", "\"", "b", "\"", ":", "2", ",", "\n", "\"", "a", "\"", ":", "1", "}">>,
       json |-> TRUE, doc |-> DocB2A1],
      [text |-> <<"N", "a", "N">>, json |-> FALSE, doc |-> NaN],
      [text |-> <<"x">>, json |-> FALSE, doc |-> NaN] }
ReadSizes == {-1, 0, 1, 2}

RECURSIVE InputText(_)
InputText(cs) ==
    IF cs = <<>> THEN <<>>
    ELSE Head(cs).text \o <<"\n">> \o DefaultSeparator \o <<"\n">> \o InputText(Tail(cs))

\* DumpReader(f, unique=unique) over a text
InitReader ==
    /\ IdleFiles
    /\ IdleFramer
    /\ reads = <<>>
    /\ wm = <<>>
    /\ ld = NoLoad
    /\ wr = NoWriter
    /\ out = <<>>
    /\ calls = <<>>
    /\ phase = "read"
    /\ got = <<>>
    /\ last = "none"
    /\ given \in SeqsUpTo(InputChunks, MaxChunks)
    /\ \E unique \in BOOLEAN : rd = DumpReader(InputText(given), DefaultSeparator, unique)

\* reader.read(n)
SRead(n) ==
    /\ phase = "read"
    /\ Len(reads) < MaxReads
    /\ \E res \in {read(rd, n, last)} :
       /\ rd' = res.r
       /\ last' = res.last
       /\ got' = got \o res.ret
       /\ reads' = Append(reads, [n |-> n, kind |-> res.kind, ret |-> res.ret,
                                  base |-> Len(got)])
    /\ UNCHANGED <<wr, out, calls, phase>>
    /\ UNCHANGED <<src, gen, chunks, fend, wm, ld, given>>
    /\ UNCHANGED varsF

NextReader ==
    \/ SNext
    \/ \E n \in ReadSizes : SRead(n)

SpecReader == InitReader /\ [][NextReader]_vars

\* ------------------------------------------------------------ load

MaxFiles == 2
MaxFileDocs == 2

\* the chunks of the files load reads: every one decodes
LoadChunks == { c \in InputChunks : c.json /\ c.text[1] # " " }

\* sorted(...) of a set of paths; a path is named by a number, and paths
\* compare as their numbers do
RECURSIVE Sorted(_)
Sorted(S) ==
    IF S = {} THEN <<>>
    ELSE LET m == CHOOSE x \in S : \A y \in S : x <= y
         IN  <<m>> \o Sorted(S \ {m})

\* load(input_glob, unique) up to its first yield: files[p] is what the
\* plain-text file at path p holds, seen = None is unique = FALSE
LoadCall(files, unique) ==
    [files |-> files, paths |-> Sorted(DOMAIN files), i |-> 0, unique |-> unique,
     seen |-> {}, f |-> NoReader, open |-> FALSE, finished |-> FALSE]

\* the generator of load, resumed: it runs to its next yield, to its end
\* or to an exception.  `with DumpOpener(path) as f` is DumpOpener(path,
\* mode='r', gz=None, unique=True) whatever load's own unique is.
RECURSIVE LoadResume(_)
RECURSIVE LoadItem(_, _)

LoadSeen(json_hash, res, l) ==
    IF json_hash \in l.seen THEN LoadResume([l EXCEPT !.f = res.r])
    ELSE [kind |-> "yield", obj |-> res.obj,
          ld |-> [l EXCEPT !.f = res.r, !.seen = @ \cup {json_hash}]]

\* one turn of `for json_obj in f`, with res what next(f) did
LoadItem(res, l) ==
    IF res.kind = "StopIteration"
    THEN LoadResume([l EXCEPT !.f = res.r, !.open = FALSE, !.i = @ + 1])
    ELSE IF res.kind # "obj"
    THEN [kind |-> res.kind, obj |-> NaN,
          ld |-> [l EXCEPT !.f = res.r, !.open = FALSE, !.finished = TRUE]]
    ELSE IF ~l.unique
    THEN [kind |-> "yield", obj |-> res.obj, ld |-> [l EXCEPT !.f = res.r]]
    ELSE IF DumpsRaises(res.obj)
    THEN [kind |-> "ValueError", obj |-> NaN,
          ld |-> [l EXCEPT !.f = res.r, !.open = FALSE, !.finished = TRUE]]
    ELSE LoadSeen(Hash(Dumps(res.obj, -1)), res, l)

LoadResume(l) ==
    IF l.open THEN LoadItem(DumpReader_next(l.f), l)
    ELSE IF l.i >= Len(l.paths)
    THEN [kind |-> "StopIteration", obj |-> NaN, ld |-> [l EXCEPT !.finished = TRUE]]
    ELSE LoadResume([l EXCEPT !.open = TRUE,
                              !.f = DumpReader(InputText(l.files[l.paths[l.i + 1]]),
                                               DefaultSeparator, TRUE)])

\* gen = load(input_glob, unique=unique) over the files the glob matches
InitLoad ==
    /\ IdleFiles
    /\ IdleFramer
    /\ reads = <<>>
    /\ wm = <<>>
    /\ given = <<>>
    /\ wr = NoWriter
    /\ out = <<>>
    /\ calls = <<>>
    /\ rd = NoReader
    /\ phase = "load"
    /\ got = <<>>
    /\ last = "none"
    /\ \E n \in 0..MaxFiles, unique \in BOOLEAN :
       \E files \in [1..n -> SeqsUpTo(LoadChunks, MaxFileDocs)] :
           ld = LoadCall(files, unique)

\* next(gen)
LNext ==
    /\ phase = "load"
    /\ ~ld.finished
    /\ \E res \in {LoadResume(ld)} :
       /\ ld' = res.ld
       /\ last' = res.kind
       /\ got' = IF res.kind = "yield" THEN Append(got, res.obj) ELSE got
    /\ UNCHANGED <<wr, out, calls, phase, rd>>
    /\ UNCHANGED <<src, gen, chunks, fend, reads, wm, given>>
    /\ UNCHANGED varsF

NextLoad == LNext

SpecLoad == InitLoad /\ [][NextLoad]_vars

\* ------------------------------------------------------------ claims

WriteModes == {ModeW, ModeX}

\* what a write transaction's staging file holds once its body has ended
\* and its streams are closed
CompleteOutput(o) ==
    IF o.gz = "Wrapper" THEN GzHeader \o GzBytes(o.sent) \o GzTrailer
    ELSE PlainBytes(o.sent)

\* C1: a 'w'/'x' transaction whose body raised leaves, once exited, the
\* final path exactly as it was when the transaction started: nothing is
\* installed there.
C1_FailedBodyLeavesDestination ==
    \A t \in Txn :
        (/\ op[t].mode \in WriteModes
         /\ op[t].body_exc # "None"
         /\ op[t].pc = "raised")
        => /\ FileAt(op[t].path) = op[t].pre
           /\ ~op[t].installed

\* C2: in every state of a 'w'/'x' transaction, a killed one included, the
\* final path holds its complete pre-transaction content or the complete
\* newly written content.  Stated for a transaction whose body raised
\* nothing, so that the failure of C1 plays no part in it.
C2_FinalPathOldOrComplete ==
    \A t \in Txn :
        (op[t].mode \in WriteModes /\ op[t].pc # "new" /\ op[t].body_exc = "None")
        => \/ FileAt(op[t].path) = op[t].pre
           \/ /\ op[t].installed
              /\ FileAt(op[t].path) = [exists |-> TRUE, data |-> CompleteOutput(op[t])]

\* C3: mode 'x' on a final path that exists ends in FileExistsError at
\* open time; the only file system call made is the existence check, and
\* the final and the staging path are as they were.
C3_ExclusiveOnExistingFailsAtOpen ==
    \A t \in Txn :
        (op[t].mode = ModeX /\ op[t].pre.exists /\ op[t].pc # "new")
        => /\ op[t].pc \in {"x_check", "raised", "killed"}
           /\ op[t].pc = "raised" => op[t].exc = "FileExistsError"
           /\ op[t].io \in {<<>>, <<"exists">>}
           /\ FileAt(op[t].path) = op[t].pre
           /\ FileAt(Staging(op[t].path)) = op[t].pre_temp

C3_Witness ==
    \E t \in Txn :
        /\ op[t].mode = ModeX
        /\ op[t].pre.exists
        /\ op[t].pc = "raised"
        /\ op[t].exc = "FileExistsError"
        /\ op[t].io = <<"exists">>
        /\ dir[Staging(op[t].path)] = 0

\* C4: when an 'x' transaction closes while the final path exists, no step
\* of its __exit__ touches the final file or moves a path, and its check of
\* the final path ends it in FileExistsError with nothing installed.
C4_CommitConflictAborts ==
    [][\A t \in Txn :
          (/\ op[t].mode = ModeX
           /\ op[t].pc \in {"exit_gz", "exit_file", "exit_check"}
           /\ dir[op[t].path] # 0
           /\ op'[t] # op[t])
          => /\ dir' = dir
             /\ ino'[dir[op[t].path]] = ino[dir[op[t].path]]
             /\ op[t].pc = "exit_check"
                => /\ op'[t].pc = "raised"
                   /\ op'[t].exc = "FileExistsError"
                   /\ ~op'[t].installed]_vars

\* C5: of two 'x' transactions on one final path, at most one installs its
\* output; the other ends in FileExistsError, and the final path holds the
\* installer's complete output.
C5_OneExclusiveWinner ==
    \A t \in Txn : \A u \in Txn \ {t} :
        (/\ op[t].mode = ModeX /\ op[u].mode = ModeX
         /\ op[t].path = op[u].path
         /\ op[t].pc \in {"done", "raised"}
         /\ op[u].pc \in {"done", "raised"}
         /\ op[t].installed)
        => /\ ~op[u].installed
           /\ op[u].exc = "FileExistsError"
           /\ FileAt(op[t].path) = [exists |-> TRUE, data |-> CompleteOutput(op[t])]

\* C6: a mode other than 'r', 'w', 'a', 'x' is rejected with IOError
\* before any file system call.
C6_InvalidModeRejected ==
    \A t \in Txn :
        (op[t].pc # "new" /\ op[t].mode \notin {ModeR, ModeW, ModeA, ModeX})
        => /\ op[t].pc = "raised"
           /\ op[t].exc = "IOError"
           /\ op[t].io = <<>>

\* C7: mode 'r' or 'a' on a path that does not exist ends in
\* FileNotFoundError at open time, whatever gz is, and the path is not
\* created.
C7_MissingFileNotFound ==
    \A t \in Txn :
        (op[t].mode \in {ModeR, ModeA} /\ ~op[t].pre.exists /\ op[t].pc # "new")
        => /\ op[t].pc \in {"sniff", "open_ra", "raised", "killed"}
           /\ op[t].pc = "raised" => op[t].exc = "FileNotFoundError"
           /\ dir[op[t].path] = 0

\* C8: a 'w'/'x' transaction writes gzip iff the filename ends in '.gz' or
\* 'gz' or gz is True, and its DumpWriter is bound to a stream of that
\* transport that takes writes and closes.
ExpectGzip(o) ==
    \/ EndsWith(o.path, <<".", "g", "z">>)
    \/ EndsWith(o.path, <<"g", "z">>)
    \/ o.gz_arg = "True"

C8_WriteTransport ==
    \A t \in Txn :
        (op[t].mode \in WriteModes /\ op[t].rw_obj = "DumpWriter")
        => /\ op[t].stream = IF ExpectGzip(op[t]) THEN "gz" ELSE "file_obj"
           /\ op[t].body_exc # "AttributeError"
           /\ op[t].exc # "AttributeError"

\* the documents the stream writer wrote, in call order
RECURSIVE WrittenDocs(_)
WrittenDocs(cs) ==
    IF cs = <<>> THEN <<>>
    ELSE IF Head(cs)[2] = "True" THEN <<Head(cs)[1]>> \o WrittenDocs(Tail(cs))
    ELSE WrittenDocs(Tail(cs))

RoundTrip ==
    LET written == WrittenDocs(calls) IN
    /\ last \in {"none", "obj", "StopIteration"}
    /\ Len(got) <= Len(written)
    /\ \A i \in 1..Len(got) : PyEq(got[i], written[i])
    /\ last = "StopIteration" => Len(got) = Len(written)

\* C9 as stated: documents written with dedup off and read back with dedup
\* off, under whatever sentinel both share, come back as written, in
\* order, and the reader ends without an error.
C9_RoundTripAnySentinel ==
    (phase = "read" /\ ~wr.unique /\ ~rd.unique) => RoundTrip

\* C9 amended: the same, for the default sentinel '--'.
C9_RoundTripDefaultSentinel ==
    (phase = "read" /\ ~wr.unique /\ ~rd.unique /\ wr.separator = DefaultSeparator)
    => RoundTrip

C9_Witness ==
    /\ phase = "read" /\ ~wr.unique /\ ~rd.unique
    /\ wr.separator = DefaultSeparator
    /\ wr.indent = DefaultIndent
    /\ last = "StopIteration"
    /\ Len(got) = 2
    /\ got[1] = DocA1B2
    /\ got[2] = Str(<<"\n", "-", "-", "\n">>)

\* call i is the first call of the session with its canonical document
FirstOccurrence(i) ==
    /\ ~HasNaN(calls[i][1])
    /\ \A j \in 1..(i - 1) : ~PyEq(calls[j][1], calls[i][1])

RECURSIVE ExpectedOut(_)
ExpectedOut(i) ==
    IF i = 0 THEN <<>>
    ELSE ExpectedOut(i - 1)
         \o (IF FirstOccurrence(i)
             THEN Dumps(calls[i][1], wr.indent) \o <<"\n">> \o wr.separator \o <<"\n">>
             ELSE <<>>)

\* C10: with dedup on, write returns True for the first occurrence of a
\* canonical document and False for a later one, and the stream holds the
\* first occurrences, each followed by its sentinel line, in call order.
C10_DedupWriter ==
    wr.unique =>
        /\ \A i \in 1..Len(calls) :
               /\ calls[i][2] = "True" <=> FirstOccurrence(i)
               /\ calls[i][2] = "False" <=> (~HasNaN(calls[i][1]) /\ ~FirstOccurrence(i))
        /\ out = ExpectedOut(Len(calls))
        /\ wr.obj_num = Len(WrittenDocs(calls))

C10_Witness ==
    /\ wr.unique
    /\ Len(calls) = 2
    /\ calls[1] = <<DocA1B2, "True">>
    /\ calls[2] = <<DocB2A1, "False">>
    /\ out = Dumps(DocA1B2, wr.indent) \o <<"\n">> \o wr.separator \o <<"\n">>

\* a line is a sentinel line: the sentinel string, then only '\r' and '\n'
IsSentinelLine(line, separator) ==
    /\ Len(line) >= Len(separator)
    /\ SubSeq(line, 1, Len(separator)) = separator
    /\ \A j \in (Len(separator) + 1)..Len(line) : line[j] \in {"\r", "\n"}

SentinelAt == {i \in 1..Len(src.lines) : IsSentinelLine(src.lines[i], src.separator)}

\* the position of the k-th sentinel line, 0 for k = 0
KthSentinel(k) ==
    IF k = 0 THEN 0
    ELSE CHOOSE i \in SentinelAt : Cardinality({j \in SentinelAt : j < i}) = k - 1

\* the lines between the (k-1)-th and the k-th sentinel line
ExpectedChunk(k) == SubSeq(src.lines, KthSentinel(k - 1) + 1, KthSentinel(k) - 1)

\* the characters after the last sentinel line
TailText ==
    Concat(SubSeq(src.lines, KthSentinel(Cardinality(SentinelAt)) + 1, Len(src.lines)))

TailIsBlank == \A i \in 1..Len(TailText) : TailText[i] \in {" ", "\t", "\r", "\n"}

\* C12: the framer ends in AssertionError exactly when what follows the
\* last sentinel line is not all whitespace, and it ends, either way, only
\* after it has yielded a chunk for every sentinel line.
C12_TrailingContentIsAnError ==
    /\ fend \in {"none", "StopIteration", "AssertionError"}
    /\ fend # "none" =>
          /\ Len(chunks) = Cardinality(SentinelAt)
          /\ fend = "AssertionError" <=> ~TailIsBlank
    /\ gen.finished <=> fend # "none"

C12_Witness ==
    /\ src.lines = << <<"1", "\n">>, <<"-", "-", "\n">>, <<"1", "\n">> >>
    /\ src.separator = DefaultSeparator
    /\ chunks = << << <<"1", "\n">> >> >>
    /\ fend = "AssertionError"

\* C13: the chunks yielded so far are the lines between consecutive
\* sentinel lines, in order, one chunk per sentinel line; a line with other
\* characters around the sentinel stays in its chunk.
C13_OneChunkPerSentinelLine ==
    /\ Len(chunks) <= Cardinality(SentinelAt)
    /\ \A k \in 1..Len(chunks) : chunks[k] = ExpectedChunk(k)
    /\ fend # "none" => Len(chunks) = Cardinality(SentinelAt)

C13_Witness ==
    /\ src.lines = << <<"-", "-", " ", "\n">>, <<"-", "-", "\r", "\n">>, <<"-", "-">> >>
    /\ src.separator = DefaultSeparator
    /\ chunks = << << <<"-", "-", " ", "\n">> >>, <<>> >>
    /\ fend = "StopIteration"

\* the input of the reader is strict JSON, chunk by chunk
WellFormed == \A i \in 1..Len(given) : given[i].json

\* the documents a reader over the input is to yield, from its first i
\* chunks: all of them, or with dedup the first of each
RECURSIVE ExpectedYield(_)
ExpectedYield(i) ==
    IF i = 0 THEN <<>>
    ELSE IF rd.unique /\ \E j \in 1..(i - 1) : PyEq(given[j].doc, given[i].doc)
    THEN ExpectedYield(i - 1)
    ELSE Append(ExpectedYield(i - 1), given[i].doc)

GotIsPrefix ==
    LET e == ExpectedYield(Len(given)) IN
    /\ Len(got) <= Len(e)
    /\ \A k \in 1..Len(got) : PyEq(got[k], e[k])

C17_ReadTakesNextN ==
    WellFormed =>
        LET e == ExpectedYield(Len(given)) IN
        /\ GotIsPrefix
        /\ \A i \in 1..Len(reads) :
              LET c == reads[i]
                  remaining == Len(e) - c.base
                  cnt == IF c.n < 0 \/ c.n > remaining THEN remaining ELSE c.n
              IN  /\ c.kind = "return"
                  /\ Len(c.ret) = cnt
                  /\ \A k \in 1..cnt : PyEq(c.ret[k], e[c.base + k])

C17_Witness ==
    /\ WellFormed
    /\ ~rd.unique
    /\ Len(given) = 2
    /\ Len(reads) = 2
    /\ reads[1].n = 1 /\ Len(reads[1].ret) = 1 /\ reads[1].base = 0
    /\ reads[2].n = 2 /\ Len(reads[2].ret) = 1 /\ reads[2].base = 1
    /\ last = "StopIteration"

\* the write calls that returned True, among the first i
TrueCalls(i) == {j \in 1..i : calls[j][2] = "True"}

\* the records the calls that returned True append, in call order
RECURSIVE AppendedRecords(_)
AppendedRecords(i) ==
    IF i = 0 THEN <<>>
    ELSE AppendedRecords(i - 1)
         \o (IF calls[i][2] = "True"
             THEN Dumps(calls[i][1], wr.indent) \o <<"\n">> \o wr.separator \o <<"\n">>
             ELSE <<>>)

\* C16: writemany writes its documents in order and returns how many of
\* them write returned True for; obj_num is the number of writes that
\* returned True, and the stream holds one record for each of them.
C16_WriteManyCounts ==
    /\ \A i \in 1..Len(wm) :
          LET c == wm[i]
              clean == \A k \in 1..Len(c.docs) : ~HasNaN(c.docs[k])
          IN  /\ c.kind = "return" <=> clean
              /\ clean =>
                    /\ Len(calls) >= c.base + Len(c.docs)
                    /\ \A k \in 1..Len(c.docs) : calls[c.base + k][1] = c.docs[k]
                    /\ c.n = Cardinality(TrueCalls(c.base + Len(c.docs)) \ TrueCalls(c.base))
    /\ wr.obj_num = Cardinality(TrueCalls(Len(calls)))
    /\ out = AppendedRecords(Len(calls))

C16_Witness ==
    /\ wr.unique
    /\ Len(wm) = 1
    /\ wm[1].docs = <<DocA1B2, DocB2A1>>
    /\ wm[1].kind = "return"
    /\ wm[1].n = 1
    /\ wr.obj_num = 1

RECURSIVE ExpectedRecv(_, _)
ExpectedRecv(docs, unique) ==
    IF docs = <<>> THEN <<>>
    ELSE LET before == SubSeq(docs, 1, Len(docs) - 1)
             d == docs[Len(docs)]
         IN  IF unique /\ \E j \in 1..Len(before) : PyEq(before[j], d)
             THEN ExpectedRecv(before, unique)
             ELSE Append(ExpectedRecv(before, unique), d)

\* a read transaction has received, so far, the first documents of docs,
\* all of them once it met the end, and nothing has raised
ReadsBack(o, docs) ==
    LET e == ExpectedRecv(docs, o.unique) IN
    /\ o.pc # "raised"
    /\ o.body_exc = "None"
    /\ Len(o.recv) <= Len(e)
    /\ \A k \in 1..Len(o.recv) : PyEq(o.recv[k], e[k])
    /\ o.r_last = "StopIteration" => Len(o.recv) = Len(e)

HasGzipMagic(data) == Len(data) >= 2 /\ SubSeq(data, 1, 2) = GzHeader

C15_CleanBodyInstallsOutput ==
    \A t \in Txn :
        (/\ op[t].mode \in WriteModes
         /\ op[t].rw_obj = "DumpWriter"
         /\ op[t].body_exc = "None"
         /\ op[t].pc \in {"done", "raised"})
        => /\ op[t].pc = "done"
           /\ FileAt(op[t].path) = [exists |-> TRUE, data |-> CompleteOutput(op[t])]
           /\ dir[Staging(op[t].path)] = 0

\* what an append transaction that kept the transport of its file leaves
AppendedFile(o) ==
    o.pre.data \o (IF HasGzipMagic(o.pre.data)
                   THEN GzHeader \o GzBytes(o.sent) \o GzTrailer
                   ELSE PlainBytes(o.sent))

\* the documents of the file every transaction of the model starts from
OldDocs == <<Num(0)>>

AppendExtends(w, r) ==
    /\ \A i \in 1..Len(w.io) : w.io[i] \in {"open(rb)", "open(at)", "write", "close"}
    /\ w.temp_path = <<>>
    /\ dir[Staging(w.path)] = 0
    /\ w.pc = "done" =>
          /\ r.pc = "new" => FileAt(w.path) = [exists |-> TRUE, data |-> AppendedFile(w)]
          /\ (r.mode = ModeR /\ r.gz_arg = "None" /\ r.pc \notin {"new", "sniff"})
             => ReadsBack(r, OldDocs \o w.wrote)
    /\ \A i \in 1..Len(w.wrote) : \A j \in 1..(i - 1) :
           w.unique => ~PyEq(w.wrote[i], w.wrote[j])

\* C20 as stated: an append transaction on an existing file, whatever gz
\* is, uses no staging path and no rename, leaves the file as it was
\* followed by its own documents in the file's transport, and dedups only
\* among its own documents.
C20_AppendKeepsTransport ==
    LET w == op["t1"]
        r == op["t2"]
    IN  (w.mode = ModeA /\ w.pre.exists /\ w.pc \notin {"new", "sniff", "open_ra"})
        => AppendExtends(w, r)

\* C20 amended: the same, for gz left unspecified.
C20_AppendSniffedKeepsTransport ==
    LET w == op["t1"]
        r == op["t2"]
    IN  (/\ w.mode = ModeA /\ w.pre.exists /\ w.gz_arg = "None"
         /\ w.pc \notin {"new", "sniff", "open_ra"})
        => AppendExtends(w, r)

C20_Witness ==
    LET w == op["t1"]
        r == op["t2"]
    IN  /\ w.mode = ModeA /\ w.gz_arg = "None" /\ w.unique /\ w.pc = "done"
        /\ HasGzipMagic(w.pre.data)
        /\ w.wrote = <<Num(0), Num(1)>>
        /\ r.mode = ModeR /\ r.gz_arg = "None" /\ ~r.unique
        /\ r.recv = <<Num(0), Num(0), Num(1)>>
        /\ r.r_last = "StopIteration"

\* the documents of the files of load, in sorted path order
RECURSIVE LoadDocs(_)
LoadDocs(k) ==
    IF k = 0 THEN <<>>
    ELSE LET cs == ld.files[ld.paths[k]]
         IN  LoadDocs(k - 1) \o [j \in 1..Len(cs) |-> cs[j].doc]

\* C19: load yields the documents of the files in sorted path order,
\* every one of them with unique=False and the first occurrences with
\* unique=True, and then ends.
C19_LoadConcatenates ==
    phase = "load" =>
        LET e == ExpectedRecv(LoadDocs(Len(ld.paths)), ld.unique) IN
        /\ last \in {"none", "yield", "StopIteration"}
        /\ Len(got) <= Len(e)
        /\ \A k \in 1..Len(got) : PyEq(got[k], e[k])
        /\ ld.finished => Len(got) = Len(e)

====
